---- MODULE Spec2Model ----
(***************************************************************************)
(* Activity service of the PLGA portal (src/unnamed/part_000, the current  *)
(* server.js): POST /api/activities, GET /api/activities (month),          *)
(* GET /api/activities/day and DELETE /api/activities/:id over a MongoDB   *)
(* collection of Activity documents and a directory of uploaded files.     *)
(*                                                                         *)
(* JavaScript values are encoded as sequences of integers: a string is the *)
(* sequence of its UTF-16 code units ("2024-02" is                         *)
(* <<50,48,50,52,45,48,50>>), undefined is <<-1>> and the boolean true is  *)
(* <<-2>>.  Every string of the model is ASCII, so code-unit order (the    *)
(* order of JavaScript's < on strings) and byte order (the order of        *)
(* MongoDB's comparison and sort operators on strings) agree.              *)
(*                                                                         *)
(* category, phase, status and notes of an activity, and mimeType and size *)
(* of an attachment, are copied from the request into the document         *)
(* untouched and read by no handler; they are left out.  A request sends   *)
(* fewer files than the limit of upload.array("files", 10).                *)
(***************************************************************************)
EXTENDS Integers, Sequences, FiniteSets

VARIABLES
    store,      \* the Activity collection: a set of documents
    disk,       \* uploadsDir: stored file name -> original name of the file
    now,        \* the last value Date.now() returned
    nextId,     \* ObjectIds handed out so far
    nreq,       \* POST requests received so far
    pc,         \* per client: where its POST /api/activities request is
    req,        \* per client: req.body, the raw files sent, req.files
    doc,        \* per client: the Activity built by the handler
    saves,      \* per client: calls of activity.save() made by the request
    resp,       \* per client: the response to its POST
    last        \* the last response of a GET or DELETE handler

vars == <<store, disk, now, nextId, nreq, pc, req, doc, saves, resp, last>>

-----------------------------------------------------------------------------
(* Bounds of the model *)

MaxReqs == 2        \* POST requests accepted over a run
MaxNow == 1         \* milliseconds the clock runs past its start

-----------------------------------------------------------------------------
(* JavaScript values *)

Undefined == << -1 >>
JsTrue == << -2 >>
EmptyStr == << >>

\* !x for x a string or undefined
Falsy(x) == x = Undefined \/ x = EmptyStr

Min(a, b) == IF a <= b THEN a ELSE b

\* a < b on strings: the first differing code unit decides, a proper prefix
\* is smaller
StrLt(a, b) ==
    \E k \in 1..(Min(Len(a), Len(b)) + 1) :
        /\ \A i \in 1..(k - 1) : a[i] = b[i]
        /\ \/ k <= Len(a) /\ k <= Len(b) /\ a[k] < b[k]
           \/ k = Len(a) + 1 /\ k <= Len(b)

StrLte(a, b) == a = b \/ StrLt(a, b)

\* n.toString() for an integer n >= 0
RECURSIVE NumToString(_)
NumToString(n) == IF n < 10 THEN << 48 + n >>
                  ELSE NumToString(n \div 10) \o << 48 + (n % 10) >>

\* s.padStart(len, "0")
RECURSIVE PadStart0(_, _)
PadStart0(s, len) == IF Len(s) >= len THEN s ELSE PadStart0(<< 48 >> \o s, len)

pad2(n) == PadStart0(NumToString(n), 2)

\* s.split("-"): the pieces of s between the hyphens
RECURSIVE SplitDash(_)
SplitDash(s) ==
    IF \A i \in 1..Len(s) : s[i] # 45 THEN << s >>
    ELSE LET k == CHOOSE i \in 1..Len(s) :
                      s[i] = 45 /\ \A j \in 1..(i - 1) : s[j] # 45
         IN  << SubSeq(s, 1, k - 1) >> \o SplitDash(SubSeq(s, k + 1, Len(s)))

\* parseInt(s, 10) for s a string of decimal digits
RECURSIVE ParseInt(_)
ParseInt(s) == IF Len(s) = 0 THEN 0
               ELSE 10 * ParseInt(SubSeq(s, 1, Len(s) - 1)) + (s[Len(s)] - 48)

IsLeap(y) == y % 4 = 0 /\ (y % 100 # 0 \/ y % 400 = 0)

DaysInMonth(y, m) ==
    IF m = 2 THEN (IF IsLeap(y) THEN 29 ELSE 28)
    ELSE IF m \in {4, 6, 9, 11} THEN 30 ELSE 31

\* new Date(y, m, 0).getDate(): a year of 0..99 means 1900 + year, the month
\* index m is carried into the year, and day 0 is the day before the first
\* of that month
JsLastDayNum(y, m) ==
    LET fy == IF y \in 0..99 THEN 1900 + y ELSE y
        yy == fy + (m \div 12)
        mm == m % 12
    IN  IF mm = 0 THEN 31 ELSE DaysInMonth(yy, mm)

\* path.extname(name): from the last dot on, "" without a dot or when the
\* only dot leads the name
ExtName(name) ==
    LET dots == {i \in 1..Len(name) : name[i] = 46}
    IN  IF dots = {} THEN EmptyStr
        ELSE LET k == CHOOSE i \in dots : \A j \in dots : j <= i
             IN  IF k = 1 THEN EmptyStr ELSE SubSeq(name, k, Len(name))

-----------------------------------------------------------------------------
(* Inputs *)

Clients == {"c1", "c2"}

\* "2024-02-29" from 2024, 2, 29
MkDate(y, m, d) ==
    PadStart0(NumToString(y), 4) \o << 45 >> \o pad2(m) \o << 45 >> \o pad2(d)

MkMonth(y, m) == PadStart0(NumToString(y), 4) \o << 45 >> \o pad2(m)

StrTrue == << 116, 114, 117, 101 >>         \* "true"
StrOn == << 111, 110 >>                     \* "on"
StrFalse == << 102, 97, 108, 115, 101 >>    \* "false"
Title == << 88 >>                           \* "X"
T0900 == << 48, 57, 58, 48, 48 >>           \* "09:00"
T1430 == << 49, 52, 58, 51, 48 >>           \* "14:30"
FileA == << 97, 46, 112, 100, 102 >>        \* "a.pdf"
FileB == << 98 >>                           \* "b"

MkBody(d, e, t, f, st, et) ==
    [date |-> d, endDate |-> e, title |-> t, isFullDay |-> f,
     startTime |-> st, endTime |-> et]

-----------------------------------------------------------------------------
(* State *)

NoBody == MkBody(Undefined, Undefined, Undefined, Undefined, Undefined, Undefined)
NoReq == [body |-> NoBody, raw |-> << >>, files |-> << >>]
NoDoc == [_id |-> 0, date |-> EmptyStr, endDate |-> EmptyStr, isFullDay |-> FALSE,
          title |-> EmptyStr, startTime |-> EmptyStr, endTime |-> EmptyStr,
          attachments |-> << >>, createdAt |-> 0]
NoResp == [status |-> 0, success |-> FALSE, activity |-> NoDoc]
NoLast == [op |-> "none", arg |-> Undefined,
           status |-> 0, success |-> FALSE, activities |-> << >>, logged |-> "none"]

Init ==
    /\ store = {}
    /\ disk = << >>
    /\ now = 0
    /\ nextId = 0
    /\ nreq = 0
    /\ pc = [p \in Clients |-> "idle"]
    /\ req = [p \in Clients |-> NoReq]
    /\ doc = [p \in Clients |-> NoDoc]
    /\ saves = [p \in Clients |-> 0]
    /\ resp = [p \in Clients |-> NoResp]
    /\ last = NoLast

-----------------------------------------------------------------------------
(* POST /api/activities *)

\* a millisecond passes
Tick ==
    /\ now < MaxNow
    /\ now' = now + 1
    /\ UNCHANGED <<store, disk, nextId, nreq, pc, req, doc, saves, resp, last>>

\* a client sends a POST with the fields of b and the files of raw
Receive(p, Bodies, Raws) ==
    /\ pc[p] = "idle"
    /\ nreq < MaxReqs
    /\ \E b \in Bodies, raw \in Raws :
           req' = [req EXCEPT ![p] = [body |-> b, raw |-> raw, files |-> << >>]]
    /\ nreq' = nreq + 1
    /\ pc' = [pc EXCEPT ![p] = "upload"]
    /\ UNCHANGED <<store, disk, now, nextId, doc, saves, resp, last>>

\* Math.round(Math.random() * 1e9), cut down to two outcomes
RandomSuffixes == {0, 1}

\* the filename callback of the disk storage
StoredName(t, r, originalname) ==
    NumToString(t) \o << 45 >> \o NumToString(r) \o ExtName(originalname)

\* writing a file into uploadsDir under a name: a file of that name is replaced
WriteFile(d, name, originalname) ==
    [n \in DOMAIN d \cup {name} |-> IF n = name THEN originalname ELSE d[n]]

\* upload.array("files", 10) stores the next file of the request
Upload(p) ==
    /\ pc[p] = "upload"
    /\ Len(req[p].files) < Len(req[p].raw)
    /\ LET orig == req[p].raw[Len(req[p].files) + 1] IN
       \E r \in RandomSuffixes :
           LET name == StoredName(now, r, orig) IN
           /\ disk' = WriteFile(disk, name, orig)
           /\ req' = [req EXCEPT ![p].files =
                          Append(@, [filename |-> name, originalname |-> orig])]
    /\ UNCHANGED <<store, now, nextId, nreq, pc, doc, saves, resp, last>>

\* lines 138-146 without the clamp of an inverted range
NormaliseEndDate_NoClamp(date, endDate) ==
    IF Falsy(endDate) THEN date ELSE endDate

\* lines 138-146
NormaliseEndDate(date, endDate) ==
    LET e1 == IF Falsy(endDate) THEN date ELSE endDate
    IN  IF StrLt(e1, date) THEN date ELSE e1

\* lines 148-149 without the checkbox encoding "on"
FullDayFlag_NoOn(isFullDay) ==
    isFullDay = StrTrue \/ isFullDay = JsTrue

\* lines 148-149
FullDayFlag(isFullDay) ==
    isFullDay = StrTrue \/ isFullDay = StrOn \/ isFullDay = JsTrue

\* lines 151-155, and the schema default "" of a time left undefined
NormaliseTime(flag, time) ==
    IF flag THEN EmptyStr
    ELSE IF time = Undefined THEN EmptyStr ELSE time

UploadsPrefix == << 47, 117, 112, 108, 111, 97, 100, 115, 47 >>     \* "/uploads/"

\* lines 157-163 with the files taken last first
Attachments_Reversed(files) ==
    [i \in 1..Len(files) |->
        [fileName |-> files[Len(files) + 1 - i].filename,
         originalName |-> files[Len(files) + 1 - i].originalname,
         url |-> UploadsPrefix \o files[Len(files) + 1 - i].filename]]

\* lines 157-163
Attachments(files) ==
    [i \in 1..Len(files) |->
        [fileName |-> files[i].filename,
         originalName |-> files[i].originalname,
         url |-> UploadsPrefix \o files[i].filename]]

\* lines 132-136 with the date left unchecked
Rejected_TitleOnly(b) == Falsy(b.title)

\* lines 132-136: the required fields
Rejected(b) == Falsy(b.date) \/ Falsy(b.title)

\* new Activity({...}) with the ObjectId oid and the createdAt default t
NewActivity(b, files, oid, t) ==
    LET flag == FullDayFlag(b.isFullDay) IN
    [_id |-> oid,
     date |-> b.date,
     endDate |-> NormaliseEndDate(b.date, b.endDate),
     isFullDay |-> flag,
     title |-> b.title,
     startTime |-> NormaliseTime(flag, b.startTime),
     endTime |-> NormaliseTime(flag, b.endTime),
     attachments |-> Attachments(files),
     createdAt |-> t]

\* the route handler up to the await: all files are stored by now
Reject(p) ==
    /\ pc[p] = "upload"
    /\ Len(req[p].files) = Len(req[p].raw)
    /\ Rejected(req[p].body)
    /\ resp' = [resp EXCEPT ![p] = [status |-> 400, success |-> FALSE, activity |-> NoDoc]]
    /\ pc' = [pc EXCEPT ![p] = "done"]
    /\ UNCHANGED <<store, disk, now, nextId, nreq, req, doc, saves, last>>

Build(p) ==
    /\ pc[p] = "upload"
    /\ Len(req[p].files) = Len(req[p].raw)
    /\ ~Rejected(req[p].body)
    /\ doc' = [doc EXCEPT ![p] =
                   NewActivity(req[p].body, req[p].files, nextId + 1, now)]
    /\ nextId' = nextId + 1
    /\ pc' = [pc EXCEPT ![p] = "save"]
    /\ UNCHANGED <<store, disk, now, nreq, req, saves, resp, last>>

\* the insert of activity.save()
Insert(coll, d) == coll \cup {d}

\* await activity.save() resolves
SaveOk(p) ==
    /\ pc[p] = "save"
    /\ store' = Insert(store, doc[p])
    /\ saves' = [saves EXCEPT ![p] = saves[p] + 1]
    /\ resp' = [resp EXCEPT ![p] = [status |-> 200, success |-> TRUE, activity |-> doc[p]]]
    /\ pc' = [pc EXCEPT ![p] = "done"]
    /\ UNCHANGED <<disk, now, nextId, nreq, req, doc, last>>

\* a catch block that answers 500 although the document was written
SaveFail_Written(p) ==
    /\ pc[p] = "save"
    /\ saves' = [saves EXCEPT ![p] = saves[p] + 1]
    /\ store' = Insert(store, doc[p])
    /\ resp' = [resp EXCEPT ![p] = [status |-> 500, success |-> FALSE, activity |-> NoDoc]]
    /\ pc' = [pc EXCEPT ![p] = "done"]
    /\ UNCHANGED <<disk, now, nextId, nreq, req, doc, last>>

\* await activity.save() rejects: the catch block
SaveFail(p) ==
    /\ pc[p] = "save"
    /\ saves' = [saves EXCEPT ![p] = saves[p] + 1]
    /\ resp' = [resp EXCEPT ![p] = [status |-> 500, success |-> FALSE, activity |-> NoDoc]]
    /\ pc' = [pc EXCEPT ![p] = "done"]
    /\ UNCHANGED <<store, disk, now, nextId, nreq, req, doc, last>>

\* the client has read the response; the connection is free again
Finish(p) ==
    /\ pc[p] = "done"
    /\ pc' = [pc EXCEPT ![p] = "idle"]
    /\ req' = [req EXCEPT ![p] = NoReq]
    /\ doc' = [doc EXCEPT ![p] = NoDoc]
    /\ saves' = [saves EXCEPT ![p] = 0]
    /\ resp' = [resp EXCEPT ![p] = NoResp]
    /\ UNCHANGED <<store, disk, now, nextId, nreq, last>>

-----------------------------------------------------------------------------
(* The queries *)

\* a sort on date and createdAt alone
SortsBefore_NoTime(a, b) ==
    \/ StrLt(a.date, b.date)
    \/ a.date = b.date /\ a.createdAt < b.createdAt

\* the sort { date: 1, startTime: 1, createdAt: 1 }: a sorts before b
SortsBefore(a, b) ==
    \/ StrLt(a.date, b.date)
    \/ a.date = b.date /\ StrLt(a.startTime, b.startTime)
    \/ a.date = b.date /\ a.startTime = b.startTime /\ a.createdAt < b.createdAt

\* the orders in which the cursor may hand out the documents S: documents
\* with equal sort keys come in any order
Sorted(S) ==
    {s \in [1..Cardinality(S) -> S] :
        /\ \A i, j \in 1..Cardinality(S) : i # j => s[i] # s[j]
        /\ \A i, j \in 1..Cardinality(S) : i < j => ~SortsBefore(s[j], s[i])}

\* find({ date: { $lte: hi }, endDate: { $gte: lo } })
FindOverlap(coll, lo, hi) ==
    {a \in coll : StrLte(a.date, hi) /\ StrLte(lo, a.endDate)}

\* lines 197-203
StartOfMonth(month) ==
    LET parts == SplitDash(month)
    IN  parts[1] \o << 45 >> \o parts[2] \o << 45, 48, 49 >>

EndOfMonth(month) ==
    LET parts == SplitDash(month)
        y == ParseInt(parts[1])
        m == ParseInt(parts[2])
    IN  parts[1] \o << 45 >> \o parts[2] \o << 45 >> \o pad2(JsLastDayNum(y, m))

\* lines 195-211: the documents the filter of a month query selects
MonthFilter(coll, month) ==
    IF Falsy(month) THEN coll
    ELSE FindOverlap(coll, StartOfMonth(month), EndOfMonth(month))

\* a day filter on the start date alone
DayFilter_StartOnly(coll, date) == {a \in coll : a.date = date}

\* lines 237-240
DayFilter(coll, date) == FindOverlap(coll, date, date)

Answer(op, arg, status, list, logged) ==
    [op |-> op, arg |-> arg, status |-> status,
     success |-> (status = 200), activities |-> list, logged |-> logged]

\* GET /api/activities?month=...
GetMonth(month) ==
    /\ \E list \in Sorted(MonthFilter(store, month)) :
           last' = Answer("month", month, 200, list, "none")
    /\ UNCHANGED <<store, disk, now, nextId, nreq, pc, req, doc, saves, resp>>

\* the find of a month query rejects
GetMonthFail(month) ==
    /\ last' = Answer("month", month, 500, << >>, "MongoError")
    /\ UNCHANGED <<store, disk, now, nextId, nreq, pc, req, doc, saves, resp>>

\* GET /api/activities/day?date=...
GetDay(date) ==
    /\ ~Falsy(date)
    /\ \E list \in Sorted(DayFilter(store, date)) :
           last' = Answer("day", date, 200, list, "none")
    /\ UNCHANGED <<store, disk, now, nextId, nreq, pc, req, doc, saves, resp>>

\* lines 231-235
GetDayNoDate(date) ==
    /\ Falsy(date)
    /\ last' = Answer("day", date, 400, << >>, "none")
    /\ UNCHANGED <<store, disk, now, nextId, nreq, pc, req, doc, saves, resp>>

\* the find of a day query rejects
GetDayFail(date) ==
    /\ ~Falsy(date)
    /\ last' = Answer("day", date, 500, << >>, "MongoError")
    /\ UNCHANGED <<store, disk, now, nextId, nreq, pc, req, doc, saves, resp>>

-----------------------------------------------------------------------------
(* DELETE /api/activities/:id *)

\* the :id of a request: a string Mongoose can cast to the ObjectId oid
\* (valid), or one it cannot cast
NoObjectId == [valid |-> FALSE, oid |-> 0]
IdParams ==
    {[valid |-> TRUE, oid |-> i] : i \in 1..MaxReqs} \cup {NoObjectId}

\* findByIdAndDelete(id) on the collection
FindByIdAndDelete(coll, id) == {a \in coll : a._id # id.oid}

\* a deletion that also unlinks the files of the document
DeleteActivity_Unlink(id) ==
    /\ id.valid
    /\ store' = FindByIdAndDelete(store, id)
    /\ LET gone == UNION {{a.attachments[i].fileName : i \in DOMAIN a.attachments} :
                              a \in {b \in store : b._id = id.oid}}
       IN  disk' = [n \in DOMAIN disk \ gone |-> disk[n]]
    /\ last' = Answer("delete", Undefined, 200, << >>, "none")
    /\ UNCHANGED <<now, nextId, nreq, pc, req, doc, saves, resp>>

\* findByIdAndDelete resolves, with the document or with null
DeleteActivity(id) ==
    /\ id.valid
    /\ store' = FindByIdAndDelete(store, id)
    /\ last' = Answer("delete", Undefined, 200, << >>, "none")
    /\ UNCHANGED <<disk, now, nextId, nreq, pc, req, doc, saves, resp>>

\* findByIdAndDelete rejects with a CastError: the id is no ObjectId
DeleteCastError(id) ==
    /\ ~id.valid
    /\ last' = Answer("delete", Undefined, 500, << >>, "CastError")
    /\ UNCHANGED <<store, disk, now, nextId, nreq, pc, req, doc, saves, resp>>

\* findByIdAndDelete rejects: the database failed
DeleteFail(id) ==
    /\ id.valid
    /\ last' = Answer("delete", Undefined, 500, << >>, "MongoError")
    /\ UNCHANGED <<store, disk, now, nextId, nreq, pc, req, doc, saves, resp>>

-----------------------------------------------------------------------------
(* Specifications *)

D1 == MkDate(2025, 3, 5)
D2 == MkDate(2025, 3, 10)

\* The whole service with one client: posts with and without the required
\* title and with and without a file, the queries and the deletion.
SvcBodies ==
    {MkBody(D2, e, t, StrOn, T0900, Undefined) :
        e \in {Undefined, D1}, t \in {Undefined, Title}}
SvcRaws == {<< >>, << FileA >>}
SvcDays == {D2}
SvcMonths == {MkMonth(2025, 3)}

Next ==
    \/ Tick
    \/ Receive("c1", SvcBodies, SvcRaws)
    \/ Upload("c1")
    \/ Reject("c1")
    \/ Build("c1")
    \/ SaveOk("c1")
    \/ SaveFail("c1")
    \/ Finish("c1")
    \/ \E m \in SvcMonths : GetMonth(m)
    \/ \E m \in SvcMonths : GetMonthFail(m)
    \/ \E d \in SvcDays : GetDay(d)
    \/ \E d \in {Undefined} : GetDayNoDate(d)
    \/ \E d \in SvcDays : GetDayFail(d)
    \/ \E id \in IdParams : DeleteActivity(id)
    \/ \E id \in IdParams : DeleteCastError(id)
    \/ \E id \in IdParams : DeleteFail(id)

Spec == Init /\ [][Next]_vars

\* Two clients posting at once, with and without files, inside one
\* millisecond.
PostBodies ==
    {MkBody(d, e, Title, f, T0900, Undefined) :
        d \in {D1, D2}, e \in {D1}, f \in {StrOn}}
PostRaws == {<< >>, << FileA, FileB >>}

NextPost ==
    \/ \E p \in Clients : Receive(p, PostBodies, PostRaws)
    \/ \E p \in Clients : Upload(p)
    \/ \E p \in Clients : Build(p)
    \/ \E p \in Clients : SaveOk(p)
    \/ \E p \in Clients : SaveFail(p)
    \/ \E p \in Clients : Finish(p)

SpecPost == Init /\ [][NextPost]_vars

\* Ingestion: one client posting every combination of the required fields
\* and the end date, and every combination of the full-day flag and the
\* times; deletions in between.
RangeBodies ==
    {MkBody(d, e, t, Undefined, Undefined, Undefined) :
        d \in {Undefined, EmptyStr, D1, D2},
        e \in {Undefined, EmptyStr, D1, D2},
        t \in {Undefined, EmptyStr, Title}}
FlagBodies ==
    {MkBody(D1, Undefined, Title, f, st, et) :
        f \in {Undefined, JsTrue, StrTrue, StrOn, StrFalse},
        st \in {Undefined, EmptyStr, T0900},
        et \in {Undefined, EmptyStr, T1430}}

NextIngest ==
    \/ Receive("c1", RangeBodies \cup FlagBodies, {<< >>})
    \/ Reject("c1")
    \/ Build("c1")
    \/ SaveOk("c1")
    \/ SaveFail("c1")
    \/ Finish("c1")
    \/ \E id \in IdParams : DeleteActivity(id)

SpecIngest == Init /\ [][NextIngest]_vars

\* The overlap queries: one client posting activities over the days around
\* February of a leap year and of the year 0000, and every day and month
\* query around them.
FebDates ==
    {MkDate(0, 2, 29), MkDate(2024, 1, 31), MkDate(2024, 2, 29), MkDate(2024, 3, 1)}
FebMonths ==
    {Undefined, MkMonth(0, 2), MkMonth(2023, 2), MkMonth(2024, 2), MkMonth(2024, 3)}
OverlapBodies ==
    {MkBody(d, e, Title, Undefined, Undefined, Undefined) :
        d \in FebDates, e \in FebDates \cup {Undefined}}

NextOverlap ==
    \/ Receive("c1", OverlapBodies, {<< >>})
    \/ Build("c1")
    \/ SaveOk("c1")
    \/ Finish("c1")
    \/ \E m \in FebMonths : GetMonth(m)
    \/ \E d \in FebDates : GetDay(d)

SpecOverlap == Init /\ [][NextOverlap]_vars

\* The sort: one client posting timed and untimed activities on two days
\* while the clock runs, and the queries that return them all.
SortBodies ==
    {MkBody(d, Undefined, Title, Undefined, st, Undefined) :
        d \in {D1, D2}, st \in {Undefined, T0900, T1430}}

NextSort ==
    \/ Tick
    \/ Receive("c1", SortBodies, {<< >>})
    \/ Build("c1")
    \/ SaveOk("c1")
    \/ Finish("c1")
    \/ GetMonth(MkMonth(2025, 3))
    \/ GetDay(D2)

SpecSort == Init /\ [][NextSort]_vars

-----------------------------------------------------------------------------
(* Properties *)

Range(s) == {s[i] : i \in DOMAIN s}

\* the stored document of the request of client p, if it is stored
Stored(p) == {a \in store : a._id = doc[p]._id}

\* the request of client p got past the required-field check
Built(p) == pc[p] \in {"save", "done"} /\ doc[p] # NoDoc

TruthyFlags == {JsTrue, StrTrue, StrOn}

\* a date "YYYY-MM-DD" as a number that grows with the calendar
DateNum(s) ==
    LET parts == SplitDash(s)
    IN  ParseInt(parts[1]) * 10000 + ParseInt(parts[2]) * 100 + ParseInt(parts[3])

\* a time "HH:mm" in minutes, the empty time before them all
TimeNum(s) ==
    IF s = EmptyStr THEN -1
    ELSE ParseInt(SubSeq(s, 1, 2)) * 60 + ParseInt(SubSeq(s, 4, 5))

\* C1: every stored activity has endDate >= date as strings; a creation with
\* date and title is never rejected, and its stored endDate is the date when
\* the endDate sent is absent or smaller than the date, and the endDate sent
\* otherwise.
C1_RangeNormalised ==
    /\ \A a \in store : StrLte(a.date, a.endDate)
    /\ \A p \in Clients :
           LET b == req[p].body IN
           (pc[p] = "done" /\ ~Falsy(b.date) /\ ~Falsy(b.title)) =>
               /\ resp[p].status # 400
               /\ \A a \in Stored(p) :
                      a.endDate = IF b.endDate = Undefined THEN b.date
                                  ELSE IF StrLt(b.endDate, b.date) THEN b.date
                                  ELSE b.endDate

\* an inverted range was posted and is stored clamped
C1_Witness ==
    \E p \in Clients :
        /\ pc[p] = "done" /\ resp[p].status = 200
        /\ req[p].body.endDate = D1 /\ req[p].body.date = D2
        /\ \E a \in Stored(p) : a.date = D2 /\ a.endDate = D2

\* C4: a creation whose isFullDay is true, "true" or "on" is stored with
\* isFullDay = true and both times empty whatever times were sent; every
\* stored full-day activity has both times empty.
C4_FullDayClearsTimes ==
    /\ \A a \in store : a.isFullDay => a.startTime = EmptyStr /\ a.endTime = EmptyStr
    /\ \A p \in Clients :
           (Built(p) /\ req[p].body.isFullDay \in TruthyFlags) =>
               /\ doc[p].isFullDay
               /\ \A a \in Stored(p) :
                      a.isFullDay /\ a.startTime = EmptyStr /\ a.endTime = EmptyStr

\* a full-day activity posted as "on" with both times is stored without them
C4_Witness ==
    \E p \in Clients :
        /\ pc[p] = "done" /\ resp[p].status = 200
        /\ req[p].body.isFullDay = StrOn
        /\ req[p].body.startTime = T0900 /\ req[p].body.endTime = T1430
        /\ \E a \in Stored(p) : a.isFullDay /\ a.startTime = EmptyStr

\* C7: a creation whose date or title is missing or empty is answered 400
\* without a document being built or saved; every stored activity has a
\* non-empty date and a non-empty title.
C7_RejectedWritesNothing ==
    /\ \A a \in store : a.date \notin {Undefined, EmptyStr} /\ a.title \notin {Undefined, EmptyStr}
    /\ \A p \in Clients :
           LET b == req[p].body IN
           (pc[p] \in {"save", "done"}
                /\ (b.date \in {Undefined, EmptyStr} \/ b.title \in {Undefined, EmptyStr})) =>
               /\ pc[p] = "done"
               /\ resp[p].status = 400
               /\ saves[p] = 0
               /\ doc[p] = NoDoc

\* a creation without a title was rejected while the store holds an activity
C7_Witness ==
    \E p \in Clients :
        /\ pc[p] = "done" /\ resp[p].status = 400
        /\ req[p].body.title = EmptyStr /\ req[p].body.date = D1
        /\ store # {}

\* C7 as a step: the rejecting step leaves the store as it was
C7_RejectKeepsStore ==
    [][\A p \in Clients : (pc[p] # "done" /\ pc'[p] = "done" /\ resp'[p].status = 400)
                              => store' = store]_vars

\* C2: a day query for d returns exactly the stored activities whose range
\* of calendar days holds d.
C2_DayOverlap ==
    [][(last' # last /\ last'.op = "day" /\ last'.status = 200) =>
           Range(last'.activities) =
               {a \in store' : DateNum(a.date) <= DateNum(last'.arg)
                                /\ DateNum(last'.arg) <= DateNum(a.endDate)}]_vars

\* a day query returned an activity that starts before and ends after the day
C2_Witness ==
    /\ last.op = "day" /\ last.status = 200
    /\ \E a \in Range(last.activities) :
           DateNum(a.date) < DateNum(last.arg) /\ DateNum(last.arg) < DateNum(a.endDate)
    /\ \E a \in store : a \notin Range(last.activities)

\* the month and the year of a month "YYYY-MM"
MonthYear(month) == ParseInt(SplitDash(month)[1])
MonthNum(month) == ParseInt(SplitDash(month)[2])

\* the stored activities of coll whose range of days meets the month, the
\* month being as long as the calendar makes it
InMonth(coll, month) ==
    LET first == MonthYear(month) * 10000 + MonthNum(month) * 100 + 1
        final == MonthYear(month) * 10000 + MonthNum(month) * 100
                     + DaysInMonth(MonthYear(month), MonthNum(month))
    IN  {a \in coll : DateNum(a.date) <= final /\ DateNum(a.endDate) >= first}

\* C3: a month query for M returns exactly the stored activities whose range
\* meets [first day of M, last day of M], the last day by the calendar.
C3_MonthOverlap ==
    [][(last' # last /\ last'.op = "month" /\ last'.status = 200
            /\ last'.arg # Undefined) =>
           Range(last'.activities) = InMonth(store', last'.arg)]_vars

\* C3 for the months of the years from 0100 on
C3_MonthOverlapFrom100 ==
    [][(last' # last /\ last'.op = "month" /\ last'.status = 200
            /\ last'.arg # Undefined /\ MonthYear(last'.arg) >= 100) =>
           Range(last'.activities) = InMonth(store', last'.arg)]_vars

\* the sort keys of a are at most those of b, as a triple
KeysLe(a, b) ==
    \/ DateNum(a.date) < DateNum(b.date)
    \/ /\ DateNum(a.date) = DateNum(b.date)
       /\ TimeNum(a.startTime) < TimeNum(b.startTime)
    \/ /\ DateNum(a.date) = DateNum(b.date)
       /\ TimeNum(a.startTime) = TimeNum(b.startTime)
       /\ a.createdAt <= b.createdAt

\* C5: the activities a day or month query returns are in ascending order of
\* (date, startTime, createdAt), the empty startTime first: of two returned
\* activities the earlier one is strictly before the later one unless all
\* three keys are equal.
C5_ResultSorted ==
    (last.op \in {"day", "month"} /\ last.status = 200) =>
        \A i, j \in DOMAIN last.activities :
            i < j => KeysLe(last.activities[i], last.activities[j])

\* a query returned an untimed activity before a timed one of the same day
\* that was created earlier
C5_Witness ==
    /\ last.op \in {"day", "month"} /\ last.status = 200
    /\ Len(last.activities) >= 2
    /\ last.activities[1].date = last.activities[2].date
    /\ last.activities[1].startTime = EmptyStr
    /\ last.activities[2].startTime = T0900
    /\ last.activities[1].createdAt > last.activities[2].createdAt

\* the id matches no stored activity
Missing(id) == \A a \in store : ~(id.valid /\ a._id = id.oid)

\* C6: a deletion the database answers, with an id that matches no stored
\* activity, returns success and leaves the store as it was.
C6_DeleteMissingSucceeds ==
    [][\A id \in IdParams :
           ((DeleteActivity(id) \/ DeleteCastError(id)) /\ Missing(id)) =>
               (last'.success /\ store' = store)]_vars

\* C6 for the ids that are ObjectIds
C6_DeleteMissingObjectId ==
    [][\A id \in IdParams :
           (DeleteActivity(id) /\ Missing(id)) =>
               (last'.success /\ store' = store)]_vars

\* C8: no step takes a file name out of the uploads directory, and the
\* deletion of an activity takes the document out of the store and leaves
\* the files of its attachments in the directory.
C8_FilesKept ==
    [][/\ DOMAIN disk \subseteq DOMAIN disk'
       /\ \A a \in store \ store' :
              \A i \in DOMAIN a.attachments :
                  a.attachments[i].fileName \in DOMAIN disk']_vars

\* an activity with an attachment was saved and then deleted; its file is
\* still in the directory
C8_Witness ==
    /\ last.op = "delete" /\ last.success
    /\ pc["c1"] = "done" /\ resp["c1"].status = 200
    /\ Stored("c1") = {}
    /\ Len(doc["c1"].attachments) > 0
    /\ \A i \in DOMAIN doc["c1"].attachments :
           doc["c1"].attachments[i].fileName \in DOMAIN disk

\* C9: a creation whose save failed is answered 500 after one call of save,
\* no document of the request is in the store, and every file of the request
\* was stored once and is still in the directory.
C9_FailedInsert ==
    \A p \in Clients :
        (pc[p] = "done" /\ resp[p].status = 500) =>
            /\ saves[p] = 1
            /\ Stored(p) = {}
            /\ Len(req[p].files) = Len(req[p].raw)
            /\ \A i \in DOMAIN req[p].files :
                   /\ req[p].files[i].originalname = req[p].raw[i]
                   /\ req[p].files[i].filename \in DOMAIN disk

\* a creation with two files failed at the save
C9_Witness ==
    \E p \in Clients :
        /\ pc[p] = "done" /\ resp[p].status = 500
        /\ Len(req[p].files) = 2
        /\ store # {}

\* C10: two creations in flight have distinct ids, the ids of the stored
\* documents are distinct, and a creation answered 200 has stored exactly one
\* document, with the fields of its own request normalised and the
\* attachments of its own files in the order of their upload.
C10_IndependentCreations ==
    /\ \A p, q \in Clients : (p # q /\ Built(p) /\ Built(q)) => doc[p]._id # doc[q]._id
    /\ \A a, b \in store : a._id = b._id => a = b
    /\ \A p \in Clients :
           LET b == req[p].body IN
           (pc[p] = "done" /\ resp[p].status = 200) =>
               /\ Cardinality(Stored(p)) = 1
               /\ \A a \in Stored(p) :
                      /\ a.date = b.date
                      /\ a.title = b.title
                      /\ a.endDate = IF DateNum(b.endDate) < DateNum(b.date)
                                     THEN b.date ELSE b.endDate
                      /\ a.isFullDay = (b.isFullDay \in TruthyFlags)
                      /\ Len(a.attachments) = Len(req[p].raw)
                      /\ \A i \in DOMAIN a.attachments :
                             /\ a.attachments[i].originalName = req[p].raw[i]
                             /\ a.attachments[i].fileName = req[p].files[i].filename

\* both clients were answered 200 for different activities with two files each
C10_Witness ==
    /\ \A p \in Clients :
           /\ pc[p] = "done" /\ resp[p].status = 200
           /\ Len(req[p].raw) = 2
    /\ req["c1"].body.date # req["c2"].body.date
    /\ Cardinality(store) = 2

====
